---- MODULE Spec2Model ----
(***************************************************************************)
(* Order Risk Gateway (OrderManager) over the simulated Trading Venue      *)
(* Gateway (TradingClient::Impl) of the IBTrading sources.                 *)
(*                                                                         *)
(* Doubles are modelled by integers: every quantity, price and limit used  *)
(* below is exactly representable, and so is every product of a quantity   *)
(* and a price. Order::timestamp (the system clock at construction) is not *)
(* read by any operation and is left out of the Order record.              *)
(*                                                                         *)
(* Portfolio Analytics Engine (PortfolioManager). A double that need not   *)
(* be whole (a weight, a threshold, a confidence level, a generated        *)
(* quantity) is the exact fraction <<n, d>>, d > 0; daily returns are      *)
(* whole numbers of hundredths. The inputs are such that the comparisons   *)
(* and the truncation the code performs on doubles give the results of the *)
(* exact arithmetic: confidence levels are 0, 0.5, 0.95 and 1.             *)
(***************************************************************************)
EXTENDS Integers, Sequences, FiniteSets, TLC

\* ------------------------------------------------------------------ bounds
\* Number of ids the venue hands out before placements stop being taken.
MaxOrders == 2
\* Cap on the totalTrades_ counter.
MaxTrades == 2
\* Number of threads that call into the OrderManager at the same time.
NumThreads == 2
\* Number of recordDailyReturn calls with a freely chosen value.
MaxReturns == 5
\* Number of recordDailyReturn calls in a run that fills the return window.
MaxStream == 300

\* ------------------------------------------------------- program constants
\* static int nextOrderId = 1000;
NextOrderIdInit == 1000
\* maxPositionSize_(10000.0)
DefaultMaxPositionSize == 10000
\* maxDailyLoss_(1000.0)
DefaultMaxDailyLoss == 1000
\* if (dailyReturns_.size() > 252)
WindowSize == 252
\* if (std::abs(difference) > 100.0)
MinRebalance == 100
\* order.quantity = std::abs(difference) / 100.0
ShareValue == 100
\* initialPortfolioValue_(100000.0)
InitialPortfolioValue == 100000

\* ----------------------------------------------------------- enumerations
OrderTypes == {"MARKET", "LIMIT", "STOP", "STOP_LIMIT"}
OrderSides == {"BUY", "SELL"}
OrderStatuses == {"PENDING", "SUBMITTED", "FILLED", "CANCELLED", "REJECTED"}

\* ------------------------------------------------------------ input values
\* Arguments passed to the placement calls ("" is the empty string). With
\* quantity 10, price 50 gives a notional of 500: the lowered position limit
\* exactly, and below the default one; price 1001 gives 10010, above both.
Symbols == {"", "X"}
Quantities == {-1, 0, 10}
Prices == {0, 50, 1001}
StopPrices == {0, 50}
\* Values handed to setMaxPositionSize and setMaxDailyLoss. With dailyPnL_
\* at 0, a negative maxDailyLoss makes the daily-loss check fail.
PositionSizes == {500, DefaultMaxPositionSize}
DailyLosses == {-1, DefaultMaxDailyLoss}
\* Ids the venue can hand out, and ids passed to cancelOrder, modifyOrder and
\* updateOrderStatus (0 is never handed out).
VenueIds == (NextOrderIdInit + 1)..(NextOrderIdInit + MaxOrders)
OrderIds == {0} \cup VenueIds

\* An Order value, field by field.
Order(orderId, symbol, type, side, quantity, price, stopPrice, status) ==
    [orderId |-> orderId, symbol |-> symbol, type |-> type, side |-> side,
     quantity |-> quantity, price |-> price, stopPrice |-> stopPrice,
     status |-> status]

\* Number of positions in which two equally long tuples differ.
Differences(a, b) == Cardinality({ i \in DOMAIN a : a[i] # b[i] })

\* Admission runs: for each placement call a valid call and every call that
\* differs from it in one argument; replacement orders that differ in id and
\* price only; the venue's cancellation notice as the only status
\* notification.
MarketInputs ==
    { c \in Symbols \X {"BUY"} \X Quantities :
        Differences(c, <<"X", "BUY", 10>>) <= 1 }
LimitInputs ==
    { c \in Symbols \X {"BUY"} \X Quantities \X Prices :
        Differences(c, <<"X", "BUY", 10, 50>>) <= 1 }
StopInputs ==
    { c \in Symbols \X {"SELL"} \X Quantities \X StopPrices :
        Differences(c, <<"X", "SELL", 10, 50>>) <= 1 }
StopLimitInputs ==
    { c \in Symbols \X {"SELL"} \X Quantities \X Prices \X StopPrices :
        Differences(c, <<"X", "SELL", 10, 50, 50>>) <= 1 }
AdmissionNewOrders ==
    { Order(i, "Y", "LIMIT", "SELL", 10, 50, 0, "PENDING") : i \in OrderIds }
    \cup { Order(0, "Y", "LIMIT", "SELL", 10, 1001, 0, "PENDING"),
           Order(0, "", "LIMIT", "SELL", 10, 50, 0, "PENDING") }
AdmissionStatuses == {"CANCELLED"}

\* Lifecycle runs: limit orders enter the book, the other placement calls are
\* made with an argument that fails validation; replacement orders in which
\* the caller fills every field, orderId and status included; every status
\* notification; the default risk limits.
LifecycleMarketInputs == {<<"", "BUY", 10>>}
LifecycleLimitInputs == {<<"X", "BUY", 10, 50>>, <<"X", "BUY", 10, 0>>}
LifecycleStopInputs == {<<"X", "SELL", 10, 0>>}
LifecycleStopLimitInputs == {<<"X", "SELL", 10, 50, 0>>}
NewOrders ==
    { Order(c[1], c[2], c[3], "SELL", c[4], c[5], 0, c[6]) :
        c \in { d \in OrderIds \X {"", "Y"} \X {"LIMIT", "STOP", "STOP_LIMIT"}
                      \X {0, 10} \X {0, 50} \X OrderStatuses :
                  Differences(d, <<0, "Y", "LIMIT", 10, 50, "PENDING">>) <= 1 } }

\* Risk runs: orders of every type that are in order, a market and a stop
\* order of a very large quantity, limit orders of notional 500 and 10010,
\* and limits set below, at and above those notionals.
RiskQuantities == {10, 1000000}
RiskMarketInputs == {<<"X", "BUY", q>> : q \in RiskQuantities}
RiskLimitInputs == {<<"X", "BUY", 10, 50>>, <<"X", "BUY", 10, 1001>>}
RiskStopInputs == {<<"X", "SELL", q, 50>> : q \in RiskQuantities}
RiskStopLimitInputs == {<<"X", "SELL", 10, 50, 50>>}
RiskNewOrders == {Order(0, "Y", "LIMIT", "SELL", 10, 1001, 0, "PENDING")}
RiskPositionSizes == {-1, 0, 499, 20000}

\* Threaded runs: the calls each thread can make.
Threads == 1..NumThreads
ThreadMarketInputs == {<<"X", "BUY", 10>>, <<"", "BUY", 10>>}
ThreadNewOrders ==
    { Order(0, "Y", "LIMIT", "SELL", 10, 50, 0, "PENDING"),
      Order(0, "", "LIMIT", "SELL", 10, 50, 0, "PENDING") }

\* Portfolio runs. A position update names a symbol, a quantity and a
\* market value; two positions of 500 and 500, 560 and 440, 750 and 250 give
\* weights 0.5, 0.56 and 0.75; 500 and -500 give a book of total value 0.
PositionSymbols == {"A", "B"}
PositionQuantities == {10, -5}
MarketValues == {-500, 0, 250, 440, 500, 560, 750}
TargetAllocations ==
    { [s \in {"A"} |-> <<3, 5>>], [s \in {"A"} |-> <<1, 2>>],
      [s \in {"B"} |-> <<3, 5>>], [s \in {"A", "B"} |-> <<1, 2>>],
      [s \in {"C"} |-> <<1, 2>>] }
Thresholds == {<<1, 20>>, <<1, 4>>}
\* Return runs: daily returns in hundredths, and confidence levels.
ReturnValues == {-5, -2, 1, 3, 4}
ConfidenceLevels == {<<19, 20>>, <<1, 2>>, <<0, 1>>, <<1, 1>>}
\* Drawdown runs: daily returns in hundredths (a halving, a loss of a
\* quarter, a flat day, a doubling).
DrawdownReturns == {-50, -25, 0, 100}
\* Window runs: the value handed to the n-th recordDailyReturn call.
StreamValues(n) == {(n % 7) - 3} \cup (IF n \in {1, 2, 253} THEN {9} ELSE {})

VARIABLES
    orders,            \* orders_ : orderId -> Order
    maxPositionSize,   \* maxPositionSize_
    maxDailyLoss,      \* maxDailyLoss_
    dailyPnL,          \* dailyPnL_
    totalTrades,       \* totalTrades_
    winningTrades,     \* winningTrades_
    connected,         \* TradingClient::Impl::connected_
    nextOrderId,       \* static nextOrderId of TradingClient::Impl::placeOrder
    last,              \* the most recent call: its operation, its arguments,
                       \* its return value and the venue calls it made
    pc,                \* thread -> the statement the thread is at
    frame,             \* thread -> the locals of the call it is in
    ordersMutex,       \* ordersMutex_ : the thread that holds it, 0 if free
    positions,         \* positions_ : symbol -> Position
    positionsMutex,    \* positionsMutex_ : "free", or "stuck" once its
                       \* holder has blocked on it
    dailyReturns,      \* dailyReturns_
    recorded           \* every value handed to recordDailyReturn, in order

vars == <<orders, maxPositionSize, maxDailyLoss, dailyPnL, totalTrades,
          winningTrades, connected, nextOrderId, last, pc, frame, ordersMutex,
          positions, positionsMutex, dailyReturns, recorded>>

risk == <<maxPositionSize, maxDailyLoss, dailyPnL>>
stats == <<totalTrades, winningTrades>>
threads == <<pc, frame, ordersMutex>>
portfolio == <<positions, positionsMutex, dailyReturns, recorded>>

\* Order::Order(); type and side are left as the caller finds them.
NoOrder == Order(0, "", "MARKET", "BUY", 0, 0, 0, "PENDING")

\* A call as the caller sees it. args: the Order built by a placement;
\* <<orderId>> for cancelOrder; <<orderId, newOrder>> for modifyOrder;
\* <<orderId, status>> for updateOrderStatus; <<value>> for the setters.
Call(op, args, ret, venue) ==
    [op |-> op, args |-> args, ret |-> ret, venue |-> venue]

\* ------------------------------------------------------------ OrderManager
\* checkRiskLimits rejecting an order whose notional equals the limit.
checkRiskLimitsAtLimit(order) ==
    LET orderValue == order.quantity * order.price
    IN  IF orderValue >= maxPositionSize THEN FALSE
        ELSE IF dailyPnL < -maxDailyLoss THEN FALSE
        ELSE TRUE

checkRiskLimits(order) ==
    LET orderValue == order.quantity * order.price
    IN  IF orderValue > maxPositionSize THEN FALSE
        ELSE IF dailyPnL < -maxDailyLoss THEN FALSE
        ELSE TRUE

\* validateOrder without the quantity test.
validateOrderAnyQuantity(order) ==
    IF order.symbol = "" THEN FALSE
    ELSE IF order.type = "LIMIT" /\ order.price <= 0 THEN FALSE
    ELSE IF order.type = "STOP" /\ order.stopPrice <= 0 THEN FALSE
    ELSE IF order.type = "STOP_LIMIT"
            /\ (order.price <= 0 \/ order.stopPrice <= 0) THEN FALSE
    ELSE checkRiskLimits(order)

\* validateOrder rejecting a stop-limit order only when both prices are bad.
validateOrderBothPrices(order) ==
    IF order.symbol = "" THEN FALSE
    ELSE IF order.quantity <= 0 THEN FALSE
    ELSE IF order.type = "LIMIT" /\ order.price <= 0 THEN FALSE
    ELSE IF order.type = "STOP" /\ order.stopPrice <= 0 THEN FALSE
    ELSE IF order.type = "STOP_LIMIT"
            /\ (order.price <= 0 /\ order.stopPrice <= 0) THEN FALSE
    ELSE checkRiskLimits(order)

validateOrder(order) ==
    IF order.symbol = "" THEN FALSE
    ELSE IF order.quantity <= 0 THEN FALSE
    ELSE IF order.type = "LIMIT" /\ order.price <= 0 THEN FALSE
    ELSE IF order.type = "STOP" /\ order.stopPrice <= 0 THEN FALSE
    ELSE IF order.type = "STOP_LIMIT"
            /\ (order.price <= 0 \/ order.stopPrice <= 0) THEN FALSE
    ELSE checkRiskLimits(order)

\* orders_[orderId] = order
Store(book, orderId, order) ==
    [k \in DOMAIN book \cup {orderId} |->
        IF k = orderId THEN order ELSE book[k]]

getOrder(orderId) ==
    IF orderId \in DOMAIN orders THEN orders[orderId] ELSE NoOrder

getAllOrders == { orders[k] : k \in DOMAIN orders }

getOrdersBySymbol(symbol) ==
    { orders[k] : k \in { j \in DOMAIN orders : orders[j].symbol = symbol } }

getOrdersByStatus(status) ==
    { orders[k] : k \in { j \in DOMAIN orders : orders[j].status = status } }

getTotalTrades == totalTrades

\* The double getWinRate returns, as the fraction <<numerator, denominator>>.
getWinRate ==
    IF totalTrades = 0 THEN <<0, 1>> ELSE <<winningTrades, totalTrades>>

\* ----------------------------------------------------- TradingClient::Impl
\* The id placeOrder returns: -1 when not connected, else ++nextOrderId.
ClientPlaceOrder(order) == IF ~connected THEN -1 ELSE nextOrderId + 1

ClientCancelOrder(orderId) == connected

ClientModifyOrder(orderId, newOrder) == connected

Connect ==
    /\ connected' = TRUE
    /\ last' = Call("connect", <<>>, TRUE, <<>>)
    /\ UNCHANGED <<orders, risk, stats, nextOrderId,
                   threads, portfolio>>

Disconnect ==
    /\ connected' = FALSE
    /\ last' = Call("disconnect", <<>>, TRUE, <<>>)
    /\ UNCHANGED <<orders, risk, stats, nextOrderId,
                   threads, portfolio>>

\* ------------------------------------------------------------- placements
\* Place without `order.orderId = orderId`: the order is stored as built.
PlaceWithoutId(op, order) ==
    IF ~validateOrder(order)
    THEN /\ last' = Call(op, order, -1, <<>>)
         /\ UNCHANGED <<orders, risk, stats, connected, nextOrderId,
                        threads, portfolio>>
    ELSE LET orderId == ClientPlaceOrder(order)
         IN  /\ connected => nextOrderId < NextOrderIdInit + MaxOrders
             /\ nextOrderId' = IF connected THEN nextOrderId + 1 ELSE nextOrderId
             /\ orders' = IF orderId > 0
                          THEN Store(orders, orderId, order)
                          ELSE orders
             /\ last' = Call(op, order, orderId, <<"place">>)
             /\ UNCHANGED <<risk, stats, connected,
                            threads, portfolio>>

\* The common body of the four placement calls, from the validateOrder test
\* to the return; order is the Order the call has built.
Place(op, order) ==
    IF ~validateOrder(order)
    THEN /\ last' = Call(op, order, -1, <<>>)
         /\ UNCHANGED <<orders, risk, stats, connected, nextOrderId,
                        threads, portfolio>>
    ELSE LET orderId == ClientPlaceOrder(order)
         IN  /\ connected => nextOrderId < NextOrderIdInit + MaxOrders
             /\ nextOrderId' = IF connected THEN nextOrderId + 1 ELSE nextOrderId
             /\ orders' = IF orderId > 0
                          THEN Store(orders, orderId,
                                     [order EXCEPT !.orderId = orderId])
                          ELSE orders
             /\ last' = Call(op, order, orderId, <<"place">>)
             /\ UNCHANGED <<risk, stats, connected,
                            threads, portfolio>>

placeMarketOrder(symbol, side, quantity) ==
    Place("placeMarketOrder",
          [NoOrder EXCEPT !.symbol = symbol, !.type = "MARKET", !.side = side,
                          !.quantity = quantity])

placeLimitOrder(symbol, side, quantity, price) ==
    Place("placeLimitOrder",
          [NoOrder EXCEPT !.symbol = symbol, !.type = "LIMIT", !.side = side,
                          !.quantity = quantity, !.price = price])

\* placeStopOrder filling price with the stop price as well.
placeStopOrderPricedAtStop(symbol, side, quantity, stopPrice) ==
    Place("placeStopOrder",
          [NoOrder EXCEPT !.symbol = symbol, !.type = "STOP", !.side = side,
                          !.quantity = quantity, !.price = stopPrice,
                          !.stopPrice = stopPrice])

placeStopOrder(symbol, side, quantity, stopPrice) ==
    Place("placeStopOrder",
          [NoOrder EXCEPT !.symbol = symbol, !.type = "STOP", !.side = side,
                          !.quantity = quantity, !.stopPrice = stopPrice])

placeStopLimitOrder(symbol, side, quantity, limitPrice, stopPrice) ==
    Place("placeStopLimitOrder",
          [NoOrder EXCEPT !.symbol = symbol, !.type = "STOP_LIMIT",
                          !.side = side, !.quantity = quantity,
                          !.price = limitPrice, !.stopPrice = stopPrice])

\* ------------------------------------------------- cancel, modify, status
\* cancelOrder without the lookup: the status is written through
\* orders_[orderId], which inserts an Order() for an unknown id.
cancelOrderNoLookup(orderId) ==
    LET result == ClientCancelOrder(orderId)
    IN  /\ orders' = IF result
                     THEN Store(orders, orderId,
                                [getOrder(orderId) EXCEPT
                                   !.status = "CANCELLED"])
                     ELSE orders
        /\ last' = Call("cancelOrder", <<orderId>>, result, <<"cancel">>)
        /\ UNCHANGED <<risk, stats, connected, nextOrderId,
                       threads, portfolio>>

cancelOrder(orderId) ==
    IF orderId \notin DOMAIN orders
    THEN /\ last' = Call("cancelOrder", <<orderId>>, FALSE, <<>>)
         /\ UNCHANGED <<orders, risk, stats, connected, nextOrderId,
                        threads, portfolio>>
    ELSE LET result == ClientCancelOrder(orderId)
         IN  /\ orders' = IF result
                          THEN [orders EXCEPT ![orderId].status = "CANCELLED"]
                          ELSE orders
             /\ last' = Call("cancelOrder", <<orderId>>, result, <<"cancel">>)
             /\ UNCHANGED <<risk, stats, connected, nextOrderId,
                            threads, portfolio>>

\* modifyOrder asking the venue before it validates newOrder.
modifyOrderSubmitsFirst(orderId, newOrder) ==
    IF orderId \notin DOMAIN orders
    THEN /\ last' = Call("modifyOrder", <<orderId, newOrder>>, FALSE, <<>>)
         /\ UNCHANGED <<orders, risk, stats, connected, nextOrderId,
                        threads, portfolio>>
    ELSE LET result == ClientModifyOrder(orderId, newOrder)
                           /\ validateOrder(newOrder)
         IN  /\ orders' = IF result
                          THEN [orders EXCEPT
                                  ![orderId] = [newOrder EXCEPT
                                                  !.orderId = orderId]]
                          ELSE orders
             /\ last' = Call("modifyOrder", <<orderId, newOrder>>, result,
                             <<"modify">>)
             /\ UNCHANGED <<risk, stats, connected, nextOrderId,
                            threads, portfolio>>

\* modifyOrder without `it->second.orderId = orderId`.
modifyOrderKeepsNewId(orderId, newOrder) ==
    IF orderId \notin DOMAIN orders
    THEN /\ last' = Call("modifyOrder", <<orderId, newOrder>>, FALSE, <<>>)
         /\ UNCHANGED <<orders, risk, stats, connected, nextOrderId,
                        threads, portfolio>>
    ELSE IF ~validateOrder(newOrder)
    THEN /\ last' = Call("modifyOrder", <<orderId, newOrder>>, FALSE, <<>>)
         /\ UNCHANGED <<orders, risk, stats, connected, nextOrderId,
                        threads, portfolio>>
    ELSE LET result == ClientModifyOrder(orderId, newOrder)
         IN  /\ orders' = IF result
                          THEN [orders EXCEPT ![orderId] = newOrder]
                          ELSE orders
             /\ last' = Call("modifyOrder", <<orderId, newOrder>>, result,
                             <<"modify">>)
             /\ UNCHANGED <<risk, stats, connected, nextOrderId,
                            threads, portfolio>>

\* modifyOrder replacing the stored order before the venue has answered.
modifyOrderStoresFirst(orderId, newOrder) ==
    IF orderId \notin DOMAIN orders
    THEN /\ last' = Call("modifyOrder", <<orderId, newOrder>>, FALSE, <<>>)
         /\ UNCHANGED <<orders, risk, stats, connected, nextOrderId,
                        threads, portfolio>>
    ELSE IF ~validateOrder(newOrder)
    THEN /\ last' = Call("modifyOrder", <<orderId, newOrder>>, FALSE, <<>>)
         /\ UNCHANGED <<orders, risk, stats, connected, nextOrderId,
                        threads, portfolio>>
    ELSE LET result == ClientModifyOrder(orderId, newOrder)
         IN  /\ orders' = [orders EXCEPT
                             ![orderId] = [newOrder EXCEPT
                                             !.orderId = orderId]]
             /\ last' = Call("modifyOrder", <<orderId, newOrder>>, result,
                             <<"modify">>)
             /\ UNCHANGED <<risk, stats, connected, nextOrderId,
                            threads, portfolio>>

\* modifyOrder without the validation of newOrder.
modifyOrderUnvalidated(orderId, newOrder) ==
    IF orderId \notin DOMAIN orders
    THEN /\ last' = Call("modifyOrder", <<orderId, newOrder>>, FALSE, <<>>)
         /\ UNCHANGED <<orders, risk, stats, connected, nextOrderId,
                        threads, portfolio>>
    ELSE LET result == ClientModifyOrder(orderId, newOrder)
         IN  /\ orders' = IF result
                          THEN [orders EXCEPT
                                  ![orderId] = [newOrder EXCEPT
                                                  !.orderId = orderId]]
                          ELSE orders
             /\ last' = Call("modifyOrder", <<orderId, newOrder>>, result,
                             <<"modify">>)
             /\ UNCHANGED <<risk, stats, connected, nextOrderId,
                            threads, portfolio>>

modifyOrder(orderId, newOrder) ==
    IF orderId \notin DOMAIN orders
    THEN /\ last' = Call("modifyOrder", <<orderId, newOrder>>, FALSE, <<>>)
         /\ UNCHANGED <<orders, risk, stats, connected, nextOrderId,
                        threads, portfolio>>
    ELSE IF ~validateOrder(newOrder)
    THEN /\ last' = Call("modifyOrder", <<orderId, newOrder>>, FALSE, <<>>)
         /\ UNCHANGED <<orders, risk, stats, connected, nextOrderId,
                        threads, portfolio>>
    ELSE LET result == ClientModifyOrder(orderId, newOrder)
         IN  /\ orders' = IF result
                          THEN [orders EXCEPT
                                  ![orderId] = [newOrder EXCEPT
                                                  !.orderId = orderId]]
                          ELSE orders
             /\ last' = Call("modifyOrder", <<orderId, newOrder>>, result,
                             <<"modify">>)
             /\ UNCHANGED <<risk, stats, connected, nextOrderId,
                            threads, portfolio>>

\* updateOrderStatus counting a fill as a win without counting the trade.
updateOrderStatusCountsWin(orderId, status) ==
    /\ (orderId \in DOMAIN orders /\ status = "FILLED")
          => winningTrades < MaxTrades
    /\ IF orderId \in DOMAIN orders
       THEN /\ orders' = [orders EXCEPT ![orderId].status = status]
            /\ winningTrades' = IF status = "FILLED"
                                THEN winningTrades + 1 ELSE winningTrades
       ELSE UNCHANGED <<orders, winningTrades>>
    /\ last' = Call("updateOrderStatus", <<orderId, status>>, TRUE, <<>>)
    /\ UNCHANGED <<risk, totalTrades, connected, nextOrderId,
                   threads, portfolio>>

\* The handler of the venue's order-status notification.
updateOrderStatus(orderId, status) ==
    /\ (orderId \in DOMAIN orders /\ status = "FILLED")
          => totalTrades < MaxTrades
    /\ IF orderId \in DOMAIN orders
       THEN /\ orders' = [orders EXCEPT ![orderId].status = status]
            /\ totalTrades' = IF status = "FILLED"
                              THEN totalTrades + 1 ELSE totalTrades
       ELSE UNCHANGED <<orders, totalTrades>>
    /\ last' = Call("updateOrderStatus", <<orderId, status>>, TRUE, <<>>)
    /\ UNCHANGED <<risk, winningTrades, connected, nextOrderId,
                   threads, portfolio>>

\* ------------------------------------------------------ risk configuration
\* setMaxPositionSize cancelling the stored orders above the new limit.
setMaxPositionSizeCancelsExcess(maxSize) ==
    /\ maxPositionSize' = maxSize
    /\ orders' = [k \in DOMAIN orders |->
                    IF orders[k].quantity * orders[k].price > maxSize
                    THEN [orders[k] EXCEPT !.status = "CANCELLED"]
                    ELSE orders[k]]
    /\ last' = Call("setMaxPositionSize", <<maxSize>>, TRUE, <<>>)
    /\ UNCHANGED <<maxDailyLoss, dailyPnL, stats, connected, nextOrderId,
                   threads, portfolio>>

setMaxPositionSize(maxSize) ==
    /\ maxPositionSize' = maxSize
    /\ last' = Call("setMaxPositionSize", <<maxSize>>, TRUE, <<>>)
    /\ UNCHANGED <<orders, maxDailyLoss, dailyPnL, stats, connected,
                   nextOrderId,
                   threads, portfolio>>

setMaxDailyLoss(maxLoss) ==
    /\ maxDailyLoss' = maxLoss
    /\ last' = Call("setMaxDailyLoss", <<maxLoss>>, TRUE, <<>>)
    /\ UNCHANGED <<orders, maxPositionSize, dailyPnL, stats, connected,
                   nextOrderId,
                   threads, portfolio>>

\* ------------------------------------------- the calls, statement by statement
\* A thread is idle (between calls), about to construct a
\* std::lock_guard on ordersMutex_ ("..._lock"), inside a call of the venue
\* that has not returned yet ("..._venue"), or at the statement named.
LockPcs == {"place_lock", "cancel_lock", "modify_lock", "get_lock"}
VenuePcs ==
    {"place_venue", "place_venue_increment", "cancel_venue", "modify_venue"}

\* The statement that follows the construction of the lock_guard.
AfterLock(label) ==
    CASE label = "place_lock" -> "place_store"
      [] label = "cancel_lock" -> "cancel_find"
      [] label = "modify_lock" -> "modify_find"
      [] label = "get_lock" -> "get_read"

\* The locals of a call: orderId, the order built or passed in, the result.
Frame(orderId, order, result) ==
    [orderId |-> orderId, order |-> order, result |-> result]
NoFrame == Frame(0, NoOrder, 0)

\* The thread returns to its caller; the lock_guard, if any, is destroyed.
Return(t) ==
    /\ pc' = [pc EXCEPT ![t] = "idle"]
    /\ frame' = [frame EXCEPT ![t] = NoFrame]

\* std::lock_guard<std::mutex> lock(ordersMutex_)
lockOrdersMutex(t) ==
    /\ pc[t] \in LockPcs
    /\ ordersMutex = 0
    /\ ordersMutex' = t
    /\ pc' = [pc EXCEPT ![t] = AfterLock(pc[t])]
    /\ UNCHANGED <<orders, risk, stats, connected, nextOrderId, last, frame,
                   portfolio>>

\* placeMarketOrder up to the call of client_->placeOrder.
placeMarketOrderCall(t, symbol, side, quantity) ==
    LET order == [NoOrder EXCEPT !.symbol = symbol, !.type = "MARKET",
                                 !.side = side, !.quantity = quantity]
    IN  /\ pc[t] = "idle"
        /\ nextOrderId
              + Cardinality({u \in Threads :
                               pc[u] \in {"place_venue",
                                          "place_venue_increment"}})
              < NextOrderIdInit + MaxOrders
        /\ IF ~validateOrder(order)
           THEN UNCHANGED <<pc, frame>>
           ELSE /\ pc' = [pc EXCEPT ![t] = "place_venue"]
                /\ frame' = [frame EXCEPT ![t] = Frame(0, order, 0)]
        /\ UNCHANGED <<orders, risk, stats, connected, nextOrderId, last,
                       ordersMutex, portfolio>>

\* TradingClient::placeOrder is entered: -1 when not connected; otherwise
\* `++nextOrderId` begins with the load of the static counter, which no lock
\* guards and which is not atomic. frame[t].orderId holds the value loaded.
ClientPlaceOrderLoad(t) ==
    /\ pc[t] = "place_venue"
    /\ IF ~connected
       THEN Return(t)
       ELSE /\ pc' = [pc EXCEPT ![t] = "place_venue_increment"]
            /\ frame' = [frame EXCEPT ![t] =
                           Frame(nextOrderId, frame[t].order, 0)]
    /\ UNCHANGED <<orders, risk, stats, connected, nextOrderId, last,
                   ordersMutex, portfolio>>

\* `++nextOrderId` stores the value loaded plus one; client_->placeOrder
\* returns it; `if (orderId > 0)`.
placeMarketOrderVenueReturn(t) ==
    LET orderId == frame[t].orderId + 1
    IN  /\ pc[t] = "place_venue_increment"
        /\ nextOrderId' = orderId
        /\ IF orderId > 0
           THEN /\ pc' = [pc EXCEPT ![t] = "place_lock"]
                /\ frame' = [frame EXCEPT ![t] =
                               Frame(orderId,
                                     [frame[t].order EXCEPT
                                        !.orderId = orderId],
                                     orderId)]
           ELSE Return(t)
        /\ UNCHANGED <<orders, risk, stats, connected, last, ordersMutex,
                       portfolio>>

\* orders_[orderId] = order; return orderId.
placeMarketOrderStore(t) ==
    /\ pc[t] = "place_store"
    /\ orders' = Store(orders, frame[t].orderId, frame[t].order)
    /\ ordersMutex' = 0
    /\ Return(t)
    /\ UNCHANGED <<risk, stats, connected, nextOrderId, last, portfolio>>

\* cancelOrder is entered.
cancelOrderCall(t, orderId) ==
    /\ pc[t] = "idle"
    /\ pc' = [pc EXCEPT ![t] = "cancel_lock"]
    /\ frame' = [frame EXCEPT ![t] = Frame(orderId, NoOrder, 0)]
    /\ UNCHANGED <<orders, risk, stats, connected, nextOrderId, last,
                   ordersMutex, portfolio>>

\* orders_.find(orderId), up to the call of client_->cancelOrder.
cancelOrderFind(t) ==
    /\ pc[t] = "cancel_find"
    /\ IF frame[t].orderId \notin DOMAIN orders
       THEN ordersMutex' = 0 /\ Return(t)
       ELSE /\ pc' = [pc EXCEPT ![t] = "cancel_venue"]
            /\ UNCHANGED <<frame, ordersMutex>>
    /\ UNCHANGED <<orders, risk, stats, connected, nextOrderId, last,
                   portfolio>>

\* client_->cancelOrder returns; the status is written; return result.
cancelOrderVenueReturn(t) ==
    LET result == ClientCancelOrder(frame[t].orderId)
    IN  /\ pc[t] = "cancel_venue"
        /\ orders' = IF result
                     THEN [orders EXCEPT
                             ![frame[t].orderId].status = "CANCELLED"]
                     ELSE orders
        /\ ordersMutex' = 0
        /\ Return(t)
        /\ UNCHANGED <<risk, stats, connected, nextOrderId, last, portfolio>>

\* modifyOrder is entered.
modifyOrderCall(t, orderId, newOrder) ==
    /\ pc[t] = "idle"
    /\ pc' = [pc EXCEPT ![t] = "modify_lock"]
    /\ frame' = [frame EXCEPT ![t] = Frame(orderId, newOrder, 0)]
    /\ UNCHANGED <<orders, risk, stats, connected, nextOrderId, last,
                   ordersMutex, portfolio>>

\* orders_.find(orderId) and validateOrder(newOrder), up to the call of
\* client_->modifyOrder.
modifyOrderFind(t) ==
    /\ pc[t] = "modify_find"
    /\ IF \/ frame[t].orderId \notin DOMAIN orders
          \/ ~validateOrder(frame[t].order)
       THEN ordersMutex' = 0 /\ Return(t)
       ELSE /\ pc' = [pc EXCEPT ![t] = "modify_venue"]
            /\ UNCHANGED <<frame, ordersMutex>>
    /\ UNCHANGED <<orders, risk, stats, connected, nextOrderId, last,
                   portfolio>>

\* client_->modifyOrder returns; the order is replaced; return result.
modifyOrderVenueReturn(t) ==
    LET result == ClientModifyOrder(frame[t].orderId, frame[t].order)
    IN  /\ pc[t] = "modify_venue"
        /\ orders' = IF result
                     THEN [orders EXCEPT
                             ![frame[t].orderId] =
                                 [frame[t].order EXCEPT
                                    !.orderId = frame[t].orderId]]
                     ELSE orders
        /\ ordersMutex' = 0
        /\ Return(t)
        /\ UNCHANGED <<risk, stats, connected, nextOrderId, last, portfolio>>

\* getOrder is entered.
getOrderCall(t, orderId) ==
    /\ pc[t] = "idle"
    /\ pc' = [pc EXCEPT ![t] = "get_lock"]
    /\ frame' = [frame EXCEPT ![t] = Frame(orderId, NoOrder, 0)]
    /\ UNCHANGED <<orders, risk, stats, connected, nextOrderId, last,
                   ordersMutex, portfolio>>

\* orders_.find(orderId); return.
getOrderRead(t) ==
    /\ pc[t] = "get_read"
    /\ ordersMutex' = 0
    /\ Return(t)
    /\ UNCHANGED <<orders, risk, stats, connected, nextOrderId, last,
                   portfolio>>

\* -------------------------------------------------------- PortfolioManager
Position(symbol, quantity, averagePrice, marketValue, unrealizedPnL, realizedPnL) ==
    [symbol |-> symbol, quantity |-> quantity, averagePrice |-> averagePrice,
     marketValue |-> marketValue, unrealizedPnL |-> unrealizedPnL,
     realizedPnL |-> realizedPnL]

\* Position()
NoPosition == Position("", 0, 0, 0, 0, 0)

\* Exact fractions <<n, d>> with d > 0.
Abs(x) == IF x < 0 THEN -x ELSE x
Frac(n, d) == IF d > 0 THEN <<n, d>> ELSE <<-n, -d>>
FracLess(a, b) == a[1] * b[2] < b[1] * a[2]
FracAbsDiff(a, b) == <<Abs(a[1] * b[2] - b[1] * a[2]), a[2] * b[2]>>

\* What a call does when it is over: it returns a value, it blocks forever
\* on positionsMutex_, or std::system_error leaves it.
Returned(value) == <<"returned", value>>
Blocked == <<"blocked">>
Thrown == <<"system_error">>

\* std::mutex::lock() by the thread that owns the mutex is undefined: the
\* call goes through where locking does nothing (no thread library linked
\* in), never returns, or throws std::system_error where the library checks.
RelockOutcomes == {"returns", "blocks", "throws"}

\* The end of a call that locks positionsMutex_ a second time, value being
\* what it returns when the second lock() goes through.
Relock(op, args, outcome, value) ==
    /\ last' = Call(op, args,
                    CASE outcome = "returns" -> Returned(value)
                      [] outcome = "blocks" -> Blocked
                      [] outcome = "throws" -> Thrown,
                    <<>>)
    /\ positionsMutex' = IF outcome = "blocks" THEN "stuck" ELSE positionsMutex

\* updatePosition keeping the quantity of an entry that exists.
updatePositionKeepsQuantity(position) ==
    /\ positionsMutex = "free"
    /\ positions' = Store(positions, position.symbol,
                          IF position.symbol \in DOMAIN positions
                          THEN [position EXCEPT !.quantity =
                                   positions[position.symbol].quantity]
                          ELSE position)
    /\ last' = Call("updatePosition", <<position>>, Returned(TRUE), <<>>)
    /\ UNCHANGED <<orders, risk, stats, connected, nextOrderId, threads,
                   positionsMutex, dailyReturns, recorded>>

updatePosition(position) ==
    /\ positionsMutex = "free"
    /\ positions' = Store(positions, position.symbol, position)
    /\ last' = Call("updatePosition", <<position>>, Returned(TRUE), <<>>)
    /\ UNCHANGED <<orders, risk, stats, connected, nextOrderId, threads,
                   positionsMutex, dailyReturns, recorded>>

\* The value getPosition returns.
PositionOf(symbol) ==
    IF symbol \in DOMAIN positions THEN positions[symbol] ELSE NoPosition

getPosition(symbol) ==
    /\ positionsMutex = "free"
    /\ last' = Call("getPosition", <<symbol>>, Returned(PositionOf(symbol)),
                    <<>>)
    /\ UNCHANGED <<orders, risk, stats, connected, nextOrderId, threads,
                   portfolio>>

\* The records getAllPositions returns (in the order of the hash table).
AllPositions == { positions[k] : k \in DOMAIN positions }

getAllPositions ==
    /\ positionsMutex = "free"
    /\ last' = Call("getAllPositions", <<>>, Returned(AllPositions), <<>>)
    /\ UNCHANGED <<orders, risk, stats, connected, nextOrderId, threads,
                   portfolio>>

\* totalValue += pair.second.marketValue, over the symbols in keys.
RECURSIVE SumMarketValue(_)
SumMarketValue(keys) ==
    IF keys = {} THEN 0
    ELSE LET k == CHOOSE x \in keys : TRUE
         IN  positions[k].marketValue + SumMarketValue(keys \ {k})

\* The value getTotalPortfolioValue returns.
TotalPortfolioValue == SumMarketValue(DOMAIN positions)

getTotalPortfolioValue ==
    /\ positionsMutex = "free"
    /\ last' = Call("getTotalPortfolioValue", <<>>,
                    Returned(TotalPortfolioValue), <<>>)
    /\ UNCHANGED <<orders, risk, stats, connected, nextOrderId, threads,
                   portfolio>>

\* The mapping getAssetAllocation builds: symbol -> marketValue / totalValue.
AssetAllocation ==
    LET totalValue == TotalPortfolioValue
    IN  IF totalValue = 0 THEN <<>>
        ELSE [k \in DOMAIN positions |->
                Frac(positions[k].marketValue, totalValue)]

\* getAssetAllocation holds positionsMutex_ when it calls
\* getTotalPortfolioValue, which locks it again.
getAssetAllocation ==
    /\ positionsMutex = "free"
    /\ \E outcome \in RelockOutcomes :
          Relock("getAssetAllocation", <<>>, outcome, AssetAllocation)
    /\ UNCHANGED <<orders, risk, stats, connected, nextOrderId, threads,
                   positions, dailyReturns, recorded>>

\* The value needsRebalancing computes from the current allocation.
NeedsRebalancing(targetAllocation, threshold) ==
    LET currentAllocation == AssetAllocation
    IN  \E symbol \in DOMAIN targetAllocation :
          LET targetWeight == targetAllocation[symbol]
              currentWeight == IF symbol \in DOMAIN currentAllocation
                               THEN currentAllocation[symbol] ELSE <<0, 1>>
          IN  FracLess(threshold, FracAbsDiff(currentWeight, targetWeight))

needsRebalancing(targetAllocation, threshold) ==
    /\ positionsMutex = "free"
    /\ \E outcome \in RelockOutcomes :
          Relock("needsRebalancing", <<targetAllocation, threshold>>, outcome,
                 NeedsRebalancing(targetAllocation, threshold))
    /\ UNCHANGED <<orders, risk, stats, connected, nextOrderId, threads,
                   positions, dailyReturns, recorded>>

\* targetValue - currentValue for one target symbol, as a fraction.
Difference(symbol, targetWeight) ==
    LET currentAllocation == AssetAllocation
        totalValue == TotalPortfolioValue
        targetValue == Frac(totalValue * targetWeight[1], targetWeight[2])
        currentValue == IF symbol \in DOMAIN currentAllocation
                        THEN Frac(currentAllocation[symbol][1] * totalValue,
                                  currentAllocation[symbol][2])
                        ELSE <<0, 1>>
    IN  <<targetValue[1] * currentValue[2] - currentValue[1] * targetValue[2],
          targetValue[2] * currentValue[2]>>

\* The orders generateRebalancingOrders builds (in the order of the hash
\* table).
RebalancingOrders(targetAllocation) ==
    { [NoOrder EXCEPT
         !.symbol = symbol, !.type = "MARKET",
         !.side = IF Difference(symbol, targetAllocation[symbol])[1] > 0
                  THEN "BUY" ELSE "SELL",
         !.quantity = <<Abs(Difference(symbol, targetAllocation[symbol])[1]),
                        Difference(symbol, targetAllocation[symbol])[2]
                           * ShareValue>>] :
        symbol \in { k \in DOMAIN targetAllocation :
                       FracLess(<<MinRebalance, 1>>,
                                FracAbsDiff(Difference(k, targetAllocation[k]),
                                            <<0, 1>>)) } }

generateRebalancingOrders(targetAllocation) ==
    /\ positionsMutex = "free"
    /\ \E outcome \in RelockOutcomes :
          Relock("generateRebalancingOrders", <<targetAllocation>>, outcome,
                 RebalancingOrders(targetAllocation))
    /\ UNCHANGED <<orders, risk, stats, connected, nextOrderId, threads,
                   positions, dailyReturns, recorded>>

\* ------------------------------------------------------- the return window
\* recordDailyReturn evicting as soon as the window holds 252 values.
recordDailyReturnEvictsAtCap(returnValue) ==
    LET pushed == Append(dailyReturns, returnValue)
    IN  /\ dailyReturns' = IF Len(pushed) >= WindowSize
                           THEN Tail(pushed) ELSE pushed
        /\ recorded' = Append(recorded, returnValue)
        /\ last' = Call("recordDailyReturn", <<returnValue>>, Returned(TRUE),
                        <<>>)
        /\ UNCHANGED <<orders, risk, stats, connected, nextOrderId, threads,
                       positions, positionsMutex>>

recordDailyReturn(returnValue) ==
    LET pushed == Append(dailyReturns, returnValue)
    IN  /\ dailyReturns' = IF Len(pushed) > WindowSize
                           THEN Tail(pushed) ELSE pushed
        /\ recorded' = Append(recorded, returnValue)
        /\ last' = Call("recordDailyReturn", <<returnValue>>, Returned(TRUE),
                        <<>>)
        /\ UNCHANGED <<orders, risk, stats, connected, nextOrderId, threads,
                       positions, positionsMutex>>

getDailyReturns ==
    /\ last' = Call("getDailyReturns", <<>>, Returned(dailyReturns), <<>>)
    /\ UNCHANGED <<orders, risk, stats, connected, nextOrderId, threads,
                   portfolio>>

\* recordDailyReturn statement by statement, for callers on several threads;
\* dailyReturns_ has no lock. dailyReturns_.push_back(returnValue).
recordDailyReturnPush(t, returnValue) ==
    /\ pc[t] = "idle"
    /\ \A u \in Threads : pc[u] # "record_evict"
    /\ dailyReturns' = Append(dailyReturns, returnValue)
    /\ recorded' = Append(recorded, returnValue)
    /\ pc' = [pc EXCEPT ![t] = "record_evict"]
    /\ UNCHANGED <<orders, risk, stats, connected, nextOrderId, last, frame,
                   ordersMutex, positions, positionsMutex>>

\* if (dailyReturns_.size() > 252) dailyReturns_.erase(begin()); return.
recordDailyReturnEvict(t) ==
    /\ pc[t] = "record_evict"
    /\ dailyReturns' = IF Len(dailyReturns) > WindowSize
                       THEN Tail(dailyReturns) ELSE dailyReturns
    /\ pc' = [pc EXCEPT ![t] = "idle"]
    /\ last' = Call("recordDailyReturn", <<recorded[Len(recorded)]>>,
                    Returned(TRUE), <<>>)
    /\ UNCHANGED <<orders, risk, stats, connected, nextOrderId, frame,
                   ordersMutex, positions, positionsMutex, recorded>>

\* getDailyReturns called by a thread that is between calls.
getDailyReturnsCall(t) ==
    /\ pc[t] = "idle"
    /\ getDailyReturns

\* std::sort(sortedReturns.begin(), sortedReturns.end())
RECURSIVE Insert(_, _)
Insert(sorted, x) ==
    IF sorted = <<>> THEN <<x>>
    ELSE IF x <= Head(sorted) THEN <<x>> \o sorted
    ELSE <<Head(sorted)>> \o Insert(Tail(sorted), x)

RECURSIVE Sort(_)
Sort(seq) ==
    IF seq = <<>> THEN <<>> ELSE Insert(Sort(Tail(seq)), Head(seq))

\* The value getVaR returns; confidenceLevel is a fraction.
VaR(confidenceLevel) ==
    IF dailyReturns = <<>> THEN 0
    ELSE LET sortedReturns == Sort(dailyReturns)
             size == Len(sortedReturns)
             product == ((confidenceLevel[2] - confidenceLevel[1]) * size)
                           \div confidenceLevel[2]
             index == IF product >= size THEN size - 1 ELSE product
         IN  -sortedReturns[index + 1]

\* getVaR sorting dailyReturns_ itself.
getVaRSortsInPlace(confidenceLevel) ==
    /\ last' = Call("getVaR", <<confidenceLevel>>,
                    Returned(VaR(confidenceLevel)), <<>>)
    /\ dailyReturns' = Sort(dailyReturns)
    /\ UNCHANGED <<orders, risk, stats, connected, nextOrderId, threads,
                   positions, positionsMutex, recorded>>

getVaR(confidenceLevel) ==
    /\ last' = Call("getVaR", <<confidenceLevel>>,
                    Returned(VaR(confidenceLevel)), <<>>)
    /\ UNCHANGED <<orders, risk, stats, connected, nextOrderId, threads,
                   portfolio>>

\* A fraction in lowest terms.
RECURSIVE GCD(_, _)
GCD(a, b) == IF b = 0 THEN a ELSE GCD(b, a % b)
Reduced(f) ==
    LET g == GCD(Abs(f[1]), f[2]) IN <<f[1] \div g, f[2] \div g>>

\* x * (1.0 + dailyReturn), dailyReturn in hundredths.
Grown(x, dailyReturn) == Reduced(<<x[1] * (100 + dailyReturn), x[2] * 100>>)
\* (a - b) / a, for a > 0.
Shortfall(a, b) ==
    LET diff == Reduced(<<a[1] * b[2] - b[1] * a[2], a[2] * b[2]>>)
    IN  Reduced(Frac(diff[1] * a[2], diff[2] * a[1]))
FracMax(a, b) == IF FracLess(a, b) THEN b ELSE a

\* The loop of a running-maximum drawdown: the value compounds, the peak is
\* the highest value seen.
RECURSIVE RunningDrawdownLoop(_, _, _, _)
RunningDrawdownLoop(i, value, peak, maxDrawdown) ==
    IF i > Len(dailyReturns) THEN maxDrawdown
    ELSE LET newValue == Grown(value, dailyReturns[i])
             newPeak == FracMax(peak, newValue)
         IN  RunningDrawdownLoop(i + 1, newValue, newPeak,
                                 FracMax(maxDrawdown,
                                         Shortfall(newPeak, newValue)))

\* getMaxDrawdown as the running-maximum drawdown of the compounded value.
MaxDrawdownRunning ==
    IF dailyReturns = <<>> THEN <<0, 1>>
    ELSE RunningDrawdownLoop(1, <<InitialPortfolioValue, 1>>,
                             <<InitialPortfolioValue, 1>>, <<0, 1>>)

\* The loop of getMaxDrawdown from the i-th daily return on.
RECURSIVE DrawdownLoop(_, _, _)
DrawdownLoop(i, peak, maxDrawdown) ==
    IF i > Len(dailyReturns) THEN maxDrawdown
    ELSE LET dailyReturn == dailyReturns[i]
             newPeak == FracMax(peak, Grown(peak, dailyReturn))
             drawdown == Shortfall(newPeak, Grown(newPeak, dailyReturn))
         IN  DrawdownLoop(i + 1, newPeak, FracMax(maxDrawdown, drawdown))

\* The value getMaxDrawdown returns, a fraction.
MaxDrawdown ==
    IF dailyReturns = <<>> THEN <<0, 1>>
    ELSE DrawdownLoop(1, <<InitialPortfolioValue, 1>>, <<0, 1>>)

getMaxDrawdown ==
    /\ last' = Call("getMaxDrawdown", <<>>, Returned(MaxDrawdown), <<>>)
    /\ UNCHANGED <<orders, risk, stats, connected, nextOrderId, threads,
                   portfolio>>

\* ------------------------------------------------------------ specification
Init ==
    /\ orders = <<>>
    /\ maxPositionSize = DefaultMaxPositionSize
    /\ maxDailyLoss = DefaultMaxDailyLoss
    /\ dailyPnL = 0
    /\ totalTrades = 0
    /\ winningTrades = 0
    /\ connected = FALSE
    /\ nextOrderId = NextOrderIdInit
    /\ last = Call("construct", <<>>, TRUE, <<>>)
    /\ pc = [t \in Threads |-> "idle"]
    /\ frame = [t \in Threads |-> NoFrame]
    /\ ordersMutex = 0
    /\ positions = <<>>
    /\ positionsMutex = "free"
    /\ dailyReturns = <<>>
    /\ recorded = <<>>

\* One call of the caller, or one notification of the venue, with its
\* arguments drawn from the given sets.
NextOver(marketIn, limitIn, stopIn, stopLimitIn, newOrders, statuses,
         sizes, losses) ==
    \/ Connect
    \/ Disconnect
    \/ \E c \in marketIn : placeMarketOrder(c[1], c[2], c[3])
    \/ \E c \in limitIn : placeLimitOrder(c[1], c[2], c[3], c[4])
    \/ \E c \in stopIn : placeStopOrder(c[1], c[2], c[3], c[4])
    \/ \E c \in stopLimitIn :
          placeStopLimitOrder(c[1], c[2], c[3], c[4], c[5])
    \/ \E id \in OrderIds : cancelOrder(id)
    \/ \E id \in OrderIds, o \in newOrders : modifyOrder(id, o)
    \/ \E id \in OrderIds, st \in statuses : updateOrderStatus(id, st)
    \/ \E v \in sizes : setMaxPositionSize(v)
    \/ \E v \in losses : setMaxDailyLoss(v)

Next ==
    NextOver(MarketInputs, LimitInputs, StopInputs, StopLimitInputs,
             AdmissionNewOrders, AdmissionStatuses, PositionSizes, DailyLosses)

Spec == Init /\ [][Next]_vars

NextLifecycle ==
    NextOver(LifecycleMarketInputs, LifecycleLimitInputs, LifecycleStopInputs,
             LifecycleStopLimitInputs, NewOrders, OrderStatuses,
             {DefaultMaxPositionSize}, {DefaultMaxDailyLoss})

SpecLifecycle == Init /\ [][NextLifecycle]_vars

\* One caller that places orders of every type, small and very large, and
\* moves the risk limits between the calls.
NextRisk ==
    NextOver(RiskMarketInputs, RiskLimitInputs, RiskStopInputs,
             RiskStopLimitInputs, RiskNewOrders, AdmissionStatuses,
             RiskPositionSizes, DailyLosses)

SpecRisk == Init /\ [][NextRisk]_vars

\* Threads that call placeMarketOrder, cancelOrder, modifyOrder and getOrder
\* at the same time, one statement at a time.
NextThreads ==
    \/ Connect
    \/ Disconnect
    \/ \E t \in Threads : lockOrdersMutex(t)
    \/ \E t \in Threads, c \in ThreadMarketInputs :
          placeMarketOrderCall(t, c[1], c[2], c[3])
    \/ \E t \in Threads : ClientPlaceOrderLoad(t)
    \/ \E t \in Threads : placeMarketOrderVenueReturn(t)
    \/ \E t \in Threads : placeMarketOrderStore(t)
    \/ \E t \in Threads, id \in OrderIds : cancelOrderCall(t, id)
    \/ \E t \in Threads : cancelOrderFind(t)
    \/ \E t \in Threads : cancelOrderVenueReturn(t)
    \/ \E t \in Threads, id \in OrderIds, o \in ThreadNewOrders :
          modifyOrderCall(t, id, o)
    \/ \E t \in Threads : modifyOrderFind(t)
    \/ \E t \in Threads : modifyOrderVenueReturn(t)
    \/ \E t \in Threads, id \in OrderIds : getOrderCall(t, id)
    \/ \E t \in Threads : getOrderRead(t)

SpecThreads == Init /\ [][NextThreads]_vars

\* One caller of the position book and of the allocation and rebalancing
\* calls.
NextPortfolio ==
    \/ \E s \in PositionSymbols, q \in PositionQuantities, v \in MarketValues :
          updatePosition(Position(s, q, 50, v, 0, 0))
    \/ \E s \in PositionSymbols \cup {"C"} : getPosition(s)
    \/ getAllPositions
    \/ getTotalPortfolioValue
    \/ getAssetAllocation
    \/ \E target \in TargetAllocations, threshold \in Thresholds :
          needsRebalancing(target, threshold)
    \/ \E target \in TargetAllocations : generateRebalancingOrders(target)

SpecPortfolio == Init /\ [][NextPortfolio]_vars

\* One caller that records up to MaxReturns daily returns of its choice and
\* reads the window and its value at risk.
NextReturns ==
    \/ \E r \in (IF Len(recorded) < MaxReturns THEN ReturnValues ELSE {}) :
          recordDailyReturn(r)
    \/ getDailyReturns
    \/ \E c \in ConfidenceLevels : getVaR(c)

SpecReturns == Init /\ [][NextReturns]_vars

\* One caller that records MaxStream daily returns, more than the window
\* holds, and reads the window.
NextWindow ==
    \/ \E r \in (IF Len(recorded) < MaxStream
                 THEN StreamValues(Len(recorded) + 1) ELSE {}) :
          recordDailyReturn(r)
    \/ getDailyReturns

SpecWindow == Init /\ [][NextWindow]_vars

\* Threads that record the stream of up to MaxStream daily returns, one
\* recordDailyReturn call at a time, and read the window from the others.
NextRecorder ==
    \/ \E t \in Threads :
          \E r \in (IF Len(recorded) < MaxStream
                    THEN StreamValues(Len(recorded) + 1) ELSE {}) :
              recordDailyReturnPush(t, r)
    \/ \E t \in Threads : recordDailyReturnEvict(t)
    \/ \E t \in Threads : getDailyReturnsCall(t)

SpecRecorder == Init /\ [][NextRecorder]_vars

\* One caller that records up to MaxReturns daily returns of its choice and
\* reads the maximum drawdown.
NextDrawdown ==
    \/ \E r \in (IF Len(recorded) < MaxReturns THEN DrawdownReturns ELSE {}) :
          recordDailyReturn(r)
    \/ getMaxDrawdown

SpecDrawdown == Init /\ [][NextDrawdown]_vars

\* ============================================================== properties
PlaceOps == {"placeMarketOrder", "placeLimitOrder", "placeStopOrder",
             "placeStopLimitOrder"}

TypeOf(op) ==
    CASE op = "placeMarketOrder" -> "MARKET"
      [] op = "placeLimitOrder" -> "LIMIT"
      [] op = "placeStopOrder" -> "STOP"
      [] op = "placeStopLimitOrder" -> "STOP_LIMIT"

\* The stored order o carries the arguments of the placement call c.
Carries(o, c) ==
    /\ o.symbol = c.args.symbol
    /\ o.type = TypeOf(c.op)
    /\ o.side = c.args.side
    /\ o.quantity = c.args.quantity
    /\ o.price = c.args.price
    /\ o.stopPrice = c.args.stopPrice

\* Every entry the book had before the step is the same after it, but for id.
OthersKept(id) ==
    \A k \in DOMAIN orders \ {id} :
        k \in DOMAIN orders' /\ orders'[k] = orders[k]

DailyLossCheckPasses == ~(dailyPnL < -maxDailyLoss)

\* Symbol, quantity and the prices the order's type requires are in order.
StructurallyValid(o) ==
    /\ o.symbol # ""
    /\ o.quantity > 0
    /\ o.type \in {"LIMIT", "STOP_LIMIT"} => o.price > 0
    /\ o.type \in {"STOP", "STOP_LIMIT"} => o.stopPrice > 0

\* ---------------------------------------------------------------------- C1
\* C1: a placement that passes validation and gets an id > 0 from the venue
\* returns that id and leaves the book mapping the id to an order that
\* carries the call's symbol, type, side, quantity and prices and has the id
\* as orderId; one that gets an id <= 0 returns it and leaves the book as it
\* was. In every state every book entry is stored under its own orderId,
\* which is > 0.
C1_PlacementStoresUnderVenueId ==
    /\ [][(last'.op \in PlaceOps /\ validateOrder(last'.args)) =>
            LET id == ClientPlaceOrder(last'.args)
            IN  /\ last'.ret = id
                /\ IF id > 0
                   THEN /\ DOMAIN orders' = DOMAIN orders \cup {id}
                        /\ Carries(orders'[id], last')
                        /\ orders'[id].orderId = id
                        /\ OthersKept(id)
                   ELSE orders' = orders]_vars
    /\ [](\A k \in DOMAIN orders : orders[k].orderId = k /\ k > 0)

\* A second order has just been placed and is stored under the id returned.
C1_Witness ==
    /\ last.op \in PlaceOps
    /\ last.ret > 0
    /\ last.ret \in DOMAIN orders
    /\ Carries(orders[last.ret], last)
    /\ Cardinality(DOMAIN orders) = 2

\* ---------------------------------------------------------------------- C2
\* C2: for every order type, a placement call with quantity <= 0 or with an
\* empty symbol returns a value <= 0 and leaves the order book as it was.
C2_BadQuantityOrSymbolRejected ==
    [][(last'.op \in PlaceOps
        /\ (last'.args.quantity <= 0 \/ last'.args.symbol = "")) =>
            (last'.ret <= 0 /\ orders' = orders)]_vars

\* A market order of quantity <= 0 was refused while the venue was connected,
\* the risk limits were the default ones and the book held an order.
C2_Witness ==
    /\ last.op = "placeMarketOrder"
    /\ last.args.quantity <= 0
    /\ last.args.symbol # ""
    /\ last.ret <= 0
    /\ connected
    /\ DailyLossCheckPasses
    /\ DOMAIN orders # {}

\* ---------------------------------------------------------------------- C3
\* C3: placeLimitOrder with price <= 0, placeStopOrder with stopPrice <= 0 and
\* placeStopLimitOrder with limitPrice <= 0 or stopPrice <= 0 return a value
\* <= 0 and store nothing, whatever the other arguments and the risk limits.
C3_BadPriceRejected ==
    [][(\/ last'.op = "placeLimitOrder" /\ last'.args.price <= 0
        \/ last'.op = "placeStopOrder" /\ last'.args.stopPrice <= 0
        \/ /\ last'.op = "placeStopLimitOrder"
           /\ (last'.args.price <= 0 \/ last'.args.stopPrice <= 0)) =>
            (last'.ret <= 0 /\ orders' = orders)]_vars

\* A stop-limit order whose only flaw is its stop price was refused while the
\* venue was connected and both risk checks would have passed.
C3_Witness ==
    /\ last.op = "placeStopLimitOrder"
    /\ last.args.symbol # ""
    /\ last.args.quantity > 0
    /\ last.args.price > 0
    /\ last.args.stopPrice <= 0
    /\ last.ret <= 0
    /\ connected
    /\ checkRiskLimits(last.args)

\* ---------------------------------------------------------------------- C4
\* C4: with the daily-loss check passing and the venue accepting, a
\* structurally valid limit or stop-limit order is rejected if
\* quantity * price > maxPositionSize and accepted if quantity * price <=
\* maxPositionSize; a notional equal to the limit is accepted.
C4_NotionalLimit ==
    [][(/\ last'.op \in {"placeLimitOrder", "placeStopLimitOrder"}
        /\ StructurallyValid(last'.args)
        /\ DailyLossCheckPasses
        /\ connected) =>
            IF last'.args.quantity * last'.args.price > maxPositionSize
            THEN last'.ret <= 0 /\ orders' = orders
            ELSE last'.ret > 0 /\ last'.ret \in DOMAIN orders']_vars

\* A limit order whose notional equals the position limit was accepted.
C4_Witness ==
    /\ last.op = "placeLimitOrder"
    /\ last.args.quantity * last.args.price = maxPositionSize
    /\ last.ret > 0
    /\ last.ret \in DOMAIN orders

\* ---------------------------------------------------------------------- C5
\* C5: the venue's place is never invoked for an order that fails
\* validateOrder, and the venue's modify is never invoked by modifyOrder when
\* newOrder fails validateOrder or the id is unknown.
C5_ValidationBeforeVenue ==
    [][/\ (last'.op \in PlaceOps /\ ~validateOrder(last'.args)) =>
              last'.venue = <<>>
       /\ (/\ last'.op = "modifyOrder"
           /\ \/ last'.args[1] \notin DOMAIN orders
              \/ ~validateOrder(last'.args[2])) =>
              last'.venue = <<>>]_vars

\* modifyOrder on a stored order was refused for its newOrder, which meets the
\* structural tests and fails the risk check, without a call to the venue.
C5_Witness ==
    /\ last.op = "modifyOrder"
    /\ last.args[1] \in DOMAIN orders
    /\ StructurallyValid(last.args[2])
    /\ ~validateOrder(last.args[2])
    /\ connected
    /\ last.ret = FALSE
    /\ last.venue = <<>>

\* ---------------------------------------------------------------------- C6
\* C6: immediately after a successful placement the stored order has status
\* submitted: getOrdersBySymbol(symbol) returns it with status submitted and
\* getOrdersByStatus(submitted) contains it.
C6_PlacedOrderIsSubmitted ==
    (last.op \in PlaceOps /\ last.ret > 0) =>
        /\ \E o \in getOrdersBySymbol(last.args.symbol) :
              o.orderId = last.ret /\ o.status = "SUBMITTED"
        /\ \E o \in getOrdersByStatus("SUBMITTED") : o.orderId = last.ret

\* ---------------------------------------------------------------------- C7
\* C7: cancelOrder(id) for an id that is not a key of the order book returns
\* false, does not call the venue, and leaves the order book and the trade
\* counters unchanged.
C7_CancelUnknownId ==
    [][(last'.op = "cancelOrder" /\ last'.args[1] \notin DOMAIN orders) =>
            /\ last'.ret = FALSE
            /\ last'.venue = <<>>
            /\ orders' = orders
            /\ totalTrades' = totalTrades
            /\ winningTrades' = winningTrades]_vars

\* cancelOrder was refused for an id the book does not hold, while the venue
\* was connected, the book held another order and a trade had been counted.
C7_Witness ==
    /\ last.op = "cancelOrder"
    /\ last.args[1] \notin DOMAIN orders
    /\ last.ret = FALSE
    /\ connected
    /\ DOMAIN orders # {}
    /\ totalTrades > 0

\* ---------------------------------------------------------------------- C8
\* The status of order k turns to cancelled in the step.
BecomesCancelled(k) ==
    /\ k \in DOMAIN orders'
    /\ orders'[k].status = "CANCELLED"
    /\ k \in DOMAIN orders => orders[k].status # "CANCELLED"

\* The step is the venue confirming the cancel of order k: its cancel call
\* returned true, or it sent a cancelled notification for k.
VenueConfirmsCancel(k) ==
    \/ last'.op = "cancelOrder" /\ last'.args = <<k>> /\ last'.ret = TRUE
    \/ last'.op = "updateOrderStatus" /\ last'.args = <<k, "CANCELLED">>

\* C8: cancelOrder(id) on a known id sets the stored status to cancelled only
\* when the venue's cancel returned true, and then the order is not in
\* getOrdersByStatus(submitted); when the venue's cancel returns false it
\* returns false and leaves the stored order unchanged. The book never shows
\* cancelled for an order whose cancel the venue did not confirm.
C8_CancelledOnlyOnVenueConfirmation ==
    /\ [][(last'.op = "cancelOrder" /\ last'.args[1] \in DOMAIN orders) =>
            LET id == last'.args[1]
            IN  IF ClientCancelOrder(id)
                THEN /\ last'.ret = TRUE
                     /\ orders' = [orders EXCEPT ![id].status = "CANCELLED"]
                     /\ \A o \in getOrdersByStatus("SUBMITTED")' :
                           o.orderId # id
                ELSE last'.ret = FALSE /\ orders' = orders]_vars
    /\ [][\A k \in OrderIds :
            BecomesCancelled(k) => VenueConfirmsCancel(k)]_vars

\* ---------------------------------------------------------------------- C9
\* C9: after a successful modifyOrder(orderId, newOrder) the entry under key
\* orderId has orderId equal to the original orderId, whatever
\* newOrder.orderId is, and no entry is created or changed under key
\* newOrder.orderId.
C9_ModifyPreservesOrderId ==
    [][(last'.op = "modifyOrder" /\ last'.ret = TRUE) =>
            LET id == last'.args[1]
                newId == last'.args[2].orderId
            IN  /\ id \in DOMAIN orders'
                /\ orders'[id].orderId = id
                /\ DOMAIN orders' = DOMAIN orders
                /\ newId # id =>
                      /\ newId \in DOMAIN orders' <=> newId \in DOMAIN orders
                      /\ newId \in DOMAIN orders =>
                            orders'[newId] = orders[newId]]_vars

\* modifyOrder has succeeded with a newOrder that carries the id of another
\* stored order.
C9_Witness ==
    /\ last.op = "modifyOrder"
    /\ last.ret = TRUE
    /\ last.args[2].orderId # last.args[1]
    /\ last.args[2].orderId \in DOMAIN orders
    /\ orders[last.args[1]].orderId = last.args[1]

\* --------------------------------------------------------------------- C10
\* C10: modifyOrder never changes the status of the stored order: the status
\* stored under orderId after modifyOrder equals the status stored before it,
\* whatever newOrder.status is and whether the call succeeds or fails.
C10_ModifyKeepsStatus ==
    [][(last'.op = "modifyOrder" /\ last'.args[1] \in DOMAIN orders) =>
            /\ last'.args[1] \in DOMAIN orders'
            /\ orders'[last'.args[1]].status = orders[last'.args[1]].status]_vars

\* --------------------------------------------------------------------- C11
\* The status changes the lifecycle allows.
LifecycleEdges ==
    {<<"PENDING", "SUBMITTED">>, <<"SUBMITTED", "FILLED">>,
     <<"SUBMITTED", "CANCELLED">>, <<"SUBMITTED", "REJECTED">>}

\* C11: over any sequence of placements, cancels, modifies and status
\* notifications, a stored order stays stored and its status changes only
\* along pending->submitted, submitted->filled, submitted->cancelled and
\* submitted->rejected; a filled, cancelled or rejected order keeps its
\* status.
C11_StatusFollowsLifecycle ==
    [][\A k \in DOMAIN orders :
          /\ k \in DOMAIN orders'
          /\ orders'[k].status # orders[k].status =>
                <<orders[k].status, orders'[k].status>> \in LifecycleEdges]_vars

\* --------------------------------------------------------------------- C12
\* The step is a status notification that turns a stored order from a
\* status other than filled to filled.
FillNotified ==
    /\ last'.op = "updateOrderStatus"
    /\ last'.args[2] = "FILLED"
    /\ last'.args[1] \in DOMAIN orders
    /\ orders[last'.args[1]].status # "FILLED"

\* C12: getTotalTrades() counts the status notifications that turned a stored
\* order from a non-filled status to filled: it is 0 at construction, such a
\* notification adds one, and no other step changes it (no placement, cancel
\* or modify, no notification for an unknown id, no repeated filled
\* notification for an order that is filled already).
C12_TotalTradesCountsFills ==
    /\ getTotalTrades = 0
    /\ [][getTotalTrades' =
             IF FillNotified THEN getTotalTrades + 1 ELSE getTotalTrades]_vars

\* --------------------------------------------------------------------- C13
\* C13: getWinRate() is 0 when totalTrades is 0 and winningTrades /
\* totalTrades otherwise; 0 <= winningTrades <= totalTrades in every state, so
\* the rate lies in [0, 1].
C13_WinRate ==
    /\ 0 <= winningTrades /\ winningTrades <= totalTrades
    /\ totalTrades = 0 => getWinRate[1] = 0
    /\ totalTrades # 0 =>
          getWinRate[1] * totalTrades = winningTrades * getWinRate[2]
    /\ getWinRate[2] > 0
    /\ 0 <= getWinRate[1] /\ getWinRate[1] <= getWinRate[2]

\* Trades have been counted, so the rate is a quotient.
C13_Witness ==
    /\ totalTrades = MaxTrades
    /\ last.op = "updateOrderStatus"
    /\ last.args[2] = "FILLED"
    /\ getWinRate = <<winningTrades, totalTrades>>

\* --------------------------------------------------------------------- C14
\* C14: no call into the venue (place, cancel, modify) is in flight while the
\* calling thread holds the order-book lock, so no thread waits for the lock
\* (in getOrder or any other call) behind a venue call that has not returned.
C14_NoVenueCallUnderLock ==
    /\ \A t \in Threads : pc[t] \in VenuePcs => ordersMutex # t
    /\ \A t, u \in Threads :
          (pc[t] \in VenuePcs /\ pc[u] \in LockPcs) => ordersMutex # t

\* --------------------------------------------------------------------- C15
\* C15: the position book holds at most one record per symbol, stored under
\* that symbol; after updatePosition(p), getPosition(p.symbol) equals p in
\* every field whatever record the symbol had before, getAllPositions() has
\* exactly one record for the symbol, and the records of the other symbols
\* are unchanged.
C15_OneRecordPerSymbol ==
    /\ [](/\ \A k \in DOMAIN positions : positions[k].symbol = k
          /\ \A r1, r2 \in AllPositions : r1.symbol = r2.symbol => r1 = r2)
    /\ [][last'.op = "updatePosition" =>
            LET p == last'.args[1]
            IN  /\ p.symbol \in DOMAIN positions'
                /\ positions'[p.symbol] = p
                /\ Cardinality({r \in AllPositions' : r.symbol = p.symbol}) = 1
                /\ DOMAIN positions' = DOMAIN positions \cup {p.symbol}
                /\ \A k \in DOMAIN positions \ {p.symbol} :
                      positions'[k] = positions[k]]_vars

\* updatePosition has just stored its record under its symbol in a book that
\* holds the other symbol as well.
C15_Witness ==
    /\ last.op = "updatePosition"
    /\ DOMAIN positions = PositionSymbols
    /\ PositionOf(last.args[1].symbol) = last.args[1]
    /\ \E r \in AllPositions : r.symbol # last.args[1].symbol
    /\ Cardinality(AllPositions) = 2

\* --------------------------------------------------------------------- C17
\* The market value the book holds for a symbol, and its share of the total.
MarketValueOf(symbol) ==
    IF symbol \in DOMAIN positions THEN positions[symbol].marketValue ELSE 0

RECURSIVE SumOfWeights(_, _)
SumOfWeights(allocation, keys) ==
    IF keys = {} THEN <<0, 1>>
    ELSE LET k == CHOOSE x \in keys : TRUE
             rest == SumOfWeights(allocation, keys \ {k})
         IN  <<allocation[k][1] * rest[2] + rest[1] * allocation[k][2],
               allocation[k][2] * rest[2]>>

\* allocation is what C17 says of the book: for a total > 0 one weight
\* marketValue / total per held symbol, the weights summing to 1; for a total
\* of 0 the empty mapping.
AllocationAsClaimed(allocation) ==
    LET total == TotalPortfolioValue
    IN  /\ total > 0 =>
              /\ DOMAIN allocation = DOMAIN positions
              /\ \A k \in DOMAIN positions :
                    /\ allocation[k][2] # 0
                    /\ allocation[k][1] * total
                          = MarketValueOf(k) * allocation[k][2]
              /\ LET sum == SumOfWeights(allocation, DOMAIN allocation)
                 IN  sum[1] = sum[2]
        /\ total = 0 => DOMAIN allocation = {}

\* C17: getAssetAllocation() returns, for a book whose total market value is
\* > 0, one entry per held symbol with weight marketValue / total, the weights
\* summing to 1; it returns the empty mapping when the total is 0.
C17_AllocationWeights ==
    last.op = "getAssetAllocation" =>
        /\ last.ret[1] = "returned"
        /\ AllocationAsClaimed(last.ret[2])

\* --------------------------------------------------------------------- C18
\* The weight of a symbol in the current allocation, 0 if it is not in it.
WeightOf(symbol) ==
    IF symbol \in DOMAIN positions /\ TotalPortfolioValue # 0
    THEN Frac(MarketValueOf(symbol), TotalPortfolioValue)
    ELSE <<0, 1>>

\* Some target symbol is further than threshold from its target weight.
Drifted(target, threshold) ==
    \E symbol \in DOMAIN target :
        FracLess(threshold, FracAbsDiff(WeightOf(symbol), target[symbol]))

\* C18: needsRebalancing(target, threshold) returns true iff some symbol in
\* target has |currentWeight - targetWeight| > threshold, a target symbol
\* that is not held counting as weight 0 and held symbols outside target being
\* ignored; target {A: 0.6} and threshold 0.05 give true for a weight of 0.5
\* and false for a weight of 0.56.
C18_NeedsRebalancing ==
    last.op = "needsRebalancing" =>
        /\ last.ret[1] = "returned"
        /\ last.ret[2] = Drifted(last.args[1], last.args[2])
        /\ (/\ last.args = <<[s \in {"A"} |-> <<3, 5>>], <<1, 20>>>>
            /\ WeightOf("A") = <<500, 1000>>) => last.ret[2] = TRUE
        /\ (/\ last.args = <<[s \in {"A"} |-> <<3, 5>>], <<1, 20>>>>
            /\ WeightOf("A") = <<560, 1000>>) => last.ret[2] = FALSE

\* --------------------------------------------------------------------- C19
\* totalValue * targetWeight - currentValue of a target symbol, the current
\* value being the one the current allocation gives (0 if it has none).
ValueGap(symbol, targetWeight) ==
    LET currentValue == IF TotalPortfolioValue # 0
                        THEN MarketValueOf(symbol) ELSE 0
    IN  <<TotalPortfolioValue * targetWeight[1]
             - currentValue * targetWeight[2],
          targetWeight[2]>>

\* generated is what C19 says of the target: one market order, orderId 0,
\* status pending, per target symbol whose gap is beyond 100 either way, buy
\* for a positive gap and sell for a negative one, of quantity |gap| / 100.
RebalancingOrdersAsClaimed(target, generated) ==
    /\ \A o \in generated :
          /\ o.symbol \in DOMAIN target
          /\ o.type = "MARKET" /\ o.orderId = 0 /\ o.status = "PENDING"
          /\ LET gap == ValueGap(o.symbol, target[o.symbol])
             IN  /\ FracLess(<<MinRebalance, 1>>, FracAbsDiff(gap, <<0, 1>>))
                 /\ o.side = IF gap[1] > 0 THEN "BUY" ELSE "SELL"
                 /\ o.quantity[2] > 0
                 /\ o.quantity[1] * gap[2] * ShareValue
                       = Abs(gap[1]) * o.quantity[2]
    /\ \A symbol \in DOMAIN target :
          LET gap == ValueGap(symbol, target[symbol])
          IN  Cardinality({o \in generated : o.symbol = symbol})
                 = IF FracLess(<<MinRebalance, 1>>,
                               FracAbsDiff(gap, <<0, 1>>))
                   THEN 1 ELSE 0

\* C19: generateRebalancingOrders(target) returns exactly one order for each
\* target symbol whose |totalValue * targetWeight - currentValue| > 100 and
\* none for the others, each a market order with orderId 0, status pending,
\* side buy for a positive difference and sell for a negative one, quantity
\* |difference| / 100; the call changes neither the position book nor the
\* order book.
C19_RebalancingOrders ==
    /\ [](last.op = "generateRebalancingOrders" =>
            /\ last.ret[1] = "returned"
            /\ RebalancingOrdersAsClaimed(last.args[1], last.ret[2]))
    /\ [][last'.op = "generateRebalancingOrders" =>
            (positions' = positions /\ orders' = orders)]_vars

\* --------------------------------------------------------------------- C16
Min(a, b) == IF a < b THEN a ELSE b

\* C16: after n recordDailyReturn calls the return window has length
\* min(n, 252) and holds the last min(n, 252) recorded values, oldest first;
\* its length never exceeds 252, and a call made on a full window evicts
\* exactly the oldest value.
C16_ReturnWindow ==
    /\ [](LET n == Len(recorded)
              kept == Min(n, 252)
          IN  /\ Len(dailyReturns) = kept
              /\ Len(dailyReturns) <= 252
              /\ dailyReturns = SubSeq(recorded, n - kept + 1, n))
    /\ [][(last'.op = "recordDailyReturn" /\ Len(recorded) >= 252) =>
            dailyReturns' = Append(Tail(dailyReturns), last'.args[1])]_vars

\* 300 values have been recorded: the window holds the 49th to the 300th.
C16_Witness ==
    /\ Len(recorded) = 300
    /\ Len(dailyReturns) = 252
    /\ dailyReturns[1] = recorded[49]
    /\ dailyReturns[252] = recorded[300]
    /\ dailyReturns[1] # recorded[1]

\* --------------------------------------------------------------------- C20
\* value is the element at index (from 0) of window sorted ascending.
IsAtRank(window, index, value) ==
    /\ \E j \in DOMAIN window : window[j] = value
    /\ Cardinality({j \in DOMAIN window : window[j] < value}) <= index
    /\ Cardinality({j \in DOMAIN window : window[j] <= value}) > index

\* The window holds -0.05, -0.02, 0.01, 0.03 and 0.04, each once.
IsExampleWindow(window) ==
    /\ Len(window) = 5
    /\ { window[j] : j \in DOMAIN window } = {-5, -2, 1, 3, 4}

\* C20: getVaR(c) on a window of n > 0 values returns the negation of the
\* element at index min(floor((1 - c) * n), n - 1) of the window sorted
\* ascending and leaves the stored window unchanged; on an empty window it
\* returns 0; for c = 0.95 and the returns -0.05, -0.02, 0.01, 0.03, 0.04 in
\* any recording order it returns 0.05.
C20_ValueAtRisk ==
    [][last'.op = "getVaR" =>
          LET c == last'.args[1]
              n == Len(dailyReturns)
              index == Min(((c[2] - c[1]) * n) \div c[2], n - 1)
          IN  /\ dailyReturns' = dailyReturns
              /\ last'.ret[1] = "returned"
              /\ n = 0 => last'.ret[2] = 0
              /\ n > 0 => IsAtRank(dailyReturns, index, -last'.ret[2])
              /\ (c = <<19, 20>> /\ IsExampleWindow(dailyReturns)) =>
                    last'.ret[2] = 5]_vars

\* getVaR(0.95) has returned 0.05 for the five returns of the example,
\* recorded in an order that is not the ascending one.
C20_Witness ==
    /\ last.op = "getVaR"
    /\ last.args[1] = <<19, 20>>
    /\ IsExampleWindow(dailyReturns)
    /\ dailyReturns # Sort(dailyReturns)
    /\ last.ret = Returned(5)

\* --------------------------------------------------------------------- C21
\* The largest loss of a single day in the window, in hundredths; 0 if no
\* day lost.
LargestDailyLoss ==
    LET losses == { -dailyReturns[j] : j \in DOMAIN dailyReturns } \cup {0}
    IN  CHOOSE x \in losses : \A y \in losses : y <= x

\* C21 as stated: getMaxDrawdown() returns 0 for every recorded return
\* window, windows that contain negative daily returns included.
C21_MaxDrawdownIsZero ==
    last.op = "getMaxDrawdown" => last.ret[2][1] = 0

\* C21 as amended: getMaxDrawdown() returns 0 exactly for the windows without
\* a negative daily return, and for the others the largest loss of a single
\* day, whatever the days before and after it.
C21_MaxDrawdownIsLargestDailyLoss ==
    last.op = "getMaxDrawdown" =>
        /\ last.ret[1] = "returned"
        /\ last.ret[2][2] > 0
        /\ last.ret[2][1] * 100 = LargestDailyLoss * last.ret[2][2]
        /\ last.ret[2][1] = 0 <=>
              \A j \in DOMAIN dailyReturns : dailyReturns[j] >= 0

\* getMaxDrawdown has returned 0.5 for a window that doubles, halves and
\* loses a quarter: the halving alone, not the fall from the peak.
C21_Witness ==
    /\ last.op = "getMaxDrawdown"
    /\ dailyReturns = <<100, -50, -25>>
    /\ last.ret = Returned(<<1, 2>>)

\* --------------------------------------------------------------------- C22
\* The operations that read the current allocation.
AllocationOps ==
    {"getAssetAllocation", "needsRebalancing", "generateRebalancingOrders"}

\* C22: getAssetAllocation(), and hence needsRebalancing() and
\* generateRebalancingOrders(), always return, even with a single caller:
\* no call is left waiting for the position-book lock, which no operation
\* acquires while it holds it, so the lock is free after every call.
C22_AllocationCallsReturn ==
    /\ positionsMutex = "free"
    /\ last.op \in AllocationOps => last.ret[1] = "returned"

\* --------------------------------------------------------------------- C23
\* The threads whose placement has got its id from the venue and has not
\* stored its order yet.
Placing == {t \in Threads : pc[t] \in {"place_lock", "place_store"}}

\* C23: with two or more threads placing orders concurrently, every
\* successful placement receives an id distinct from the id of every other
\* successful placement: no two placements in progress hold the same id, the
\* id of a placement in progress is not in the book, and the store of a
\* placement adds an entry to the book and overwrites none.
C23_DistinctOrderIds ==
    /\ [](\A t \in Placing :
            /\ frame[t].orderId \notin DOMAIN orders
            /\ \A u \in Placing \ {t} : frame[u].orderId # frame[t].orderId)
    /\ [][\A t \in Threads :
            (pc[t] = "place_store" /\ pc'[t] = "idle") =>
                Cardinality(DOMAIN orders') = Cardinality(DOMAIN orders) + 1
         ]_vars

\* --------------------------------------------------------------------- C24
\* C24: a failed modifyOrder leaves the order book unchanged: when the id is
\* unknown, when newOrder fails validation, or when the venue's modify
\* returns false, modifyOrder returns false; whenever it returns false every
\* stored order keeps every field it had, and the venue has been called at
\* most once.
C24_FailedModifyChangesNothing ==
    [][last'.op = "modifyOrder" =>
          LET orderId == last'.args[1]
              newOrder == last'.args[2]
          IN  /\ (\/ orderId \notin DOMAIN orders
                  \/ ~validateOrder(newOrder)
                  \/ ~ClientModifyOrder(orderId, newOrder))
                    => last'.ret = FALSE
              /\ last'.ret = FALSE =>
                    /\ orders' = orders
                    /\ Len(last'.venue) <= 1]_vars

\* modifyOrder on a stored order, with a newOrder that passes validation and
\* differs from the stored one, has returned false after the venue refused.
C24_Witness ==
    /\ last.op = "modifyOrder"
    /\ last.ret = FALSE
    /\ last.venue = <<"modify">>
    /\ last.args[1] \in DOMAIN orders
    /\ validateOrder(last.args[2])
    /\ orders[last.args[1]].symbol # last.args[2].symbol

\* --------------------------------------------------------------------- C25
\* What validateOrder decides for an order under the given limits.
DecidedWith(order, maxSize, maxLoss) ==
    /\ StructurallyValid(order)
    /\ ~(order.quantity * order.price > maxSize)
    /\ ~(dailyPnL < -maxLoss)

\* C25: setMaxPositionSize and setMaxDailyLoss change only the risk
\* configuration: the limit named becomes the value passed, and the order
\* book (orders above the new limit included), the other limit, the counters
\* and the connection are unchanged; the placement that follows the call is
\* decided with the new value.
C25_SettersChangeOnlyRiskConfiguration ==
    /\ [][last'.op = "setMaxPositionSize" =>
            /\ maxPositionSize' = last'.args[1]
            /\ UNCHANGED <<orders, maxDailyLoss, dailyPnL, stats, connected,
                           nextOrderId>>]_vars
    /\ [][last'.op = "setMaxDailyLoss" =>
            /\ maxDailyLoss' = last'.args[1]
            /\ UNCHANGED <<orders, maxPositionSize, dailyPnL, stats,
                           connected, nextOrderId>>]_vars
    /\ [][(/\ last.op \in {"setMaxPositionSize", "setMaxDailyLoss"}
           /\ last'.op \in PlaceOps) =>
            LET maxSize == IF last.op = "setMaxPositionSize"
                           THEN last.args[1] ELSE maxPositionSize
                maxLoss == IF last.op = "setMaxDailyLoss"
                           THEN last.args[1] ELSE maxDailyLoss
            IN  IF DecidedWith(last'.args, maxSize, maxLoss)
                THEN last'.venue = <<"place">>
                ELSE /\ last'.venue = <<>>
                     /\ last'.ret = -1
                     /\ orders' = orders]_vars

\* The limit has been lowered to 499 with a limit order of notional 500 in
\* the book: the order is still stored and pending.
C25_Witness ==
    /\ last.op = "setMaxPositionSize"
    /\ last.args = <<499>>
    /\ maxPositionSize = 499
    /\ \E k \in DOMAIN orders :
          /\ orders[k].quantity * orders[k].price > maxPositionSize
          /\ orders[k].status = "PENDING"

\* --------------------------------------------------------------------- C26
\* C26: the notional check never rejects a market or stop order: with a
\* non-empty symbol, a quantity > 0 however large, a stopPrice > 0 for a stop
\* order and maxPositionSize >= 0, placeMarketOrder and placeStopOrder are
\* submitted to the venue exactly when the daily-loss check passes, and
\* succeed exactly when it passes and the venue hands out an id.
C26_NotionalCheckPassesMarketAndStop ==
    [][(/\ last'.op \in {"placeMarketOrder", "placeStopOrder"}
        /\ StructurallyValid(last'.args)
        /\ maxPositionSize >= 0) =>
            /\ last'.venue = <<"place">> <=> DailyLossCheckPasses
            /\ last'.ret > 0 <=> (DailyLossCheckPasses /\ connected)]_vars

\* A stop order of a very large quantity has been accepted under a position
\* limit of 0.
C26_Witness ==
    /\ last.op = "placeStopOrder"
    /\ last.args.quantity > DefaultMaxPositionSize
    /\ maxPositionSize = 0
    /\ last.ret > 0
    /\ last.ret \in DOMAIN orders

\* --------------------------------------------------------------------- C27
\* C27: in every reachable state every order stored in the order book is
\* structurally valid: non-empty symbol, quantity > 0, price > 0 if its type
\* is limit or stop-limit, stopPrice > 0 if its type is stop or stop-limit,
\* after any sequence of placements, cancels, modifies and status
\* notifications.
C27_StoredOrdersStructurallyValid ==
    \A k \in DOMAIN orders : StructurallyValid(orders[k])

\* The book holds an order that was replaced by modifyOrder and then filled,
\* and an order that was cancelled.
C27_Witness ==
    \E j, k \in DOMAIN orders :
        /\ orders[j].symbol = "Y"
        /\ orders[j].status = "FILLED"
        /\ orders[k].symbol = "X"
        /\ orders[k].status = "CANCELLED"

\* --------------------------------------------------------------------- C28
\* The return window after the first n recorded values.
WindowAfter(n) == SubSeq(recorded, n - Min(n, WindowSize) + 1, n)

\* C28: recordDailyReturn is mutually exclusive with the readers of the
\* return window: what a reader on another thread gets is the window as it
\* is after the calls of recordDailyReturn so far or, if a call is in
\* progress, as it was before that call; never an intermediate state, and
\* never more than 252 values.
C28_ReadersSeeWholeAppends ==
    [][(last'.op = "getDailyReturns"
        /\ UNCHANGED <<dailyReturns, recorded, pc>>) =>
            LET seen == last'.ret[2]
                n == Len(recorded)
            IN  /\ Len(seen) <= WindowSize
                /\ \/ seen = WindowAfter(n)
                   \/ /\ \E t \in Threads : pc[t] = "record_evict"
                      /\ seen = WindowAfter(n - 1)]_vars

====
